---- MODULE Spec2Model ----
(***************************************************************************)
(* Model of speedtest_statuspage: the LAST_RESULT cache (a Mutex around    *)
(* Option<(SpeedTestResult, Instant)>), the fetch cycle                    *)
(* run_speedtest_and_cache_with_runner, the scheduler task                 *)
(* spawn_speedtest_scheduler with its tokio interval timer, and the read   *)
(* paths get_last_result, get_cached_speedtest_result and GET /speed.      *)
(*                                                                         *)
(* Threads: "sched" is the task spawned by main; the members of Clients    *)
(* are request handlers / test-harness threads calling the public API.     *)
(* A store or a clone of the multi-word cache entry is two memory steps;   *)
(* only the mutex makes it atomic.  f64 values are exact rationals         *)
(* [num, den].  The log sinks (stdout, stderr) accept every line.          *)
(***************************************************************************)
EXTENDS Integers, Sequences, FiniteSets, TLC

\* ---------------------------------------------------------------- bounds
MaxTime   == 2      \* the logical clock runs 0..MaxTime (minutes)
MaxCycles == 3      \* fetch cycles the scheduler starts
MaxCalls  == 3      \* API calls the clients make in a run

\* ------------------------------------------------------ program constants
DefaultMinutes == 10
SecsPerMinute  == 60
BpsPerMbps     == 1000000
NotReadyText   == "Speedtest result not available yet."

\* Threads calling the crate's API, and those of them that serve requests in
\* the production process
Clients  == {"c1", "c2"}
Handlers == {"c1"}
Sched   == "sched"
Threads == {Sched} \cup Clients

\* ------------------------------------------------------------ f64 values
RECURSIVE Gcd(_, _)
Gcd(a, b) == IF b = 0 THEN a ELSE Gcd(b, a % b)

F(n) == [num |-> n, den |-> 1]

\* x / k for an integer-valued x and k > 0, as a reduced fraction
FDiv(x, k) ==
    LET g == Gcd(x.num, x.den * k)
    IN  IF x.num = 0 THEN F(0)
        ELSE [num |-> x.num \div g, den |-> (x.den * k) \div g]

\* ------------------------------------------------ models.rs: the records
\* ClientInfo / ServerInfo are opaque descriptors, copied verbatim.
DefaultClient == "ClientInfo::default"
DefaultServer == "ServerInfo::default"
NoShare       == "null"

\* SpeedTestResult::default()
DefaultResult ==
    [bytes_received |-> 0, bytes_sent |-> 0,
     download_bps |-> F(0), upload_bps |-> F(0),
     download_mbps |-> F(0), upload_mbps |-> F(0), ping_ms |-> F(0),
     client |-> DefaultClient, server |-> DefaultServer,
     share |-> NoShare, timestamp |-> ""]

\* dummy_result() of the tests and benches
dummy_result ==
    [bytes_received |-> 100, bytes_sent |-> 200,
     download_bps |-> F(1000000), upload_bps |-> F(500000),
     download_mbps |-> F(1), upload_mbps |-> [num |-> 1, den |-> 2],
     ping_ms |-> F(20),
     client |-> DefaultClient, server |-> DefaultServer,
     share |-> NoShare, timestamp |-> "2025-08-07T12:34:56Z"]

\* A SpeedTestResult whose mbps field is not its bps field / 1_000_000;
\* set_last_result_for_test takes any SpeedTestResult
skewed_result == [dummy_result EXCEPT !.download_mbps = F(5),
                                      !.timestamp = "2025-08-07T13:00:00Z"]

TestResults == {dummy_result, skewed_result}

\* The fields of SpeedTestResponse that serde requires; share is an Option
\* and may be missing.
RequiredKeys == {"bytes_received", "bytes_sent", "client", "download", "ping",
                 "server", "timestamp", "upload"}

\* Texts the external tool (or a mock runner) can print on stdout.  A JSON
\* object is a function from its keys to its values.
JsonA ==
    [kind |-> "object",
     fields |-> [bytes_received |-> 12345678, bytes_sent |-> 87654321,
                 client |-> "Example ISP", download |-> F(50000000),
                 ping |-> F(20), server |-> "London Server",
                 share |-> NoShare, timestamp |-> "2025-08-07T12:00:00Z",
                 upload |-> F(10000000)]]

JsonB ==
    [kind |-> "object",
     fields |-> [bytes_received |-> 500, bytes_sent |-> 700,
                 client |-> "Other ISP", download |-> F(1500000),
                 ping |-> F(35), server |-> "Paris Server",
                 timestamp |-> "2025-08-07T12:10:00Z",
                 upload |-> F(250000)]]

JsonMissing ==
    [kind |-> "object",
     fields |-> [bytes_received |-> 1, bytes_sent |-> 2,
                 client |-> "Example ISP", ping |-> F(20),
                 server |-> "London Server",
                 timestamp |-> "2025-08-07T12:20:00Z", upload |-> F(1)]]

NotJson == [kind |-> "text", fields |-> <<>>]

Stdouts == {JsonA, JsonB, JsonMissing, NotJson}

\* serde_json::from_str::<SpeedTestResponse>
ParseErr == [ok |-> FALSE]

from_str(text) ==
    IF text.kind # "object" THEN ParseErr
    ELSE IF ~(RequiredKeys \subseteq DOMAIN text.fields) THEN ParseErr
    ELSE LET f == text.fields
         IN  [ok |-> TRUE,
              data |-> [bytes_received |-> f.bytes_received,
                        bytes_sent |-> f.bytes_sent,
                        client |-> f.client,
                        download |-> f.download,
                        ping |-> f.ping,
                        server |-> f.server,
                        share |-> IF "share" \in DOMAIN f THEN f.share
                                  ELSE NoShare,
                        timestamp |-> f.timestamp,
                        upload |-> f.upload]]

\* The struct literal of the success branch
\* (a conversion that divides by a thousand)
MakeResultPerThousand(data) ==
    [bytes_received |-> data.bytes_received,
     bytes_sent |-> data.bytes_sent,
     download_bps |-> data.download,
     upload_bps |-> data.upload,
     download_mbps |-> FDiv(data.download, 1000),
     upload_mbps |-> FDiv(data.upload, 1000),
     ping_ms |-> data.ping,
     client |-> data.client,
     server |-> data.server,
     share |-> data.share,
     timestamp |-> data.timestamp]

\* (a conversion that stores the byte counters crosswise)
MakeResultSwapsBytes(data) ==
    [bytes_received |-> data.bytes_sent,
     bytes_sent |-> data.bytes_received,
     download_bps |-> data.download,
     upload_bps |-> data.upload,
     download_mbps |-> FDiv(data.download, BpsPerMbps),
     upload_mbps |-> FDiv(data.upload, BpsPerMbps),
     ping_ms |-> data.ping,
     client |-> data.client,
     server |-> data.server,
     share |-> data.share,
     timestamp |-> data.timestamp]

MakeResult(data) ==
    [bytes_received |-> data.bytes_received,
     bytes_sent |-> data.bytes_sent,
     download_bps |-> data.download,
     upload_bps |-> data.upload,
     download_mbps |-> FDiv(data.download, BpsPerMbps),
     upload_mbps |-> FDiv(data.upload, BpsPerMbps),
     ping_ms |-> data.ping,
     client |-> data.client,
     server |-> data.server,
     share |-> data.share,
     timestamp |-> data.timestamp]

\* Results of the runner: Err(reason) or Ok(stdout)
SpawnFailed == [ok |-> FALSE, err |-> "Failed to run speedtest-cli"]
ToolFailed  == [ok |-> FALSE, err |-> "speedtest-cli failed"]
RunnerOk(s) == [ok |-> TRUE, stdout |-> s]

\* Captured output bytes: UTF-8 text, or bytes that are not UTF-8
Bytes(text) == [utf8 |-> TRUE, text |-> text]
NotUtf8     == [utf8 |-> FALSE]

\* String::from_utf8_lossy(..).to_string(): invalid bytes become U+FFFD,
\* which is no JSON document
from_utf8_lossy(b) == IF b.utf8 THEN b.text ELSE NotJson

\* How the speedtest-cli child process can end: it could not be spawned, or
\* it exited with a status, having written stdout and stderr
StderrTexts == {"", "ERROR: Unable to connect to servers"}

ProcOutcomes ==
    {[spawned |-> FALSE, ioerr |-> "No such file or directory"]}
    \cup {[spawned |-> TRUE, success |-> ok, stdout |-> out,
           stderr |-> Bytes(e)] :
             ok \in BOOLEAN,
             out \in {Bytes(JsonA), Bytes(JsonMissing), NotUtf8},
             e \in StderrTexts}
    \cup {[spawned |-> TRUE, success |-> TRUE, stdout |-> Bytes(JsonB),
           stderr |-> Bytes("")]}

\* (a runner that does not look at the exit status)
run_speedtestIgnoresStatus(p) ==
    IF ~p.spawned
    THEN [ok |-> FALSE, err |-> <<"Failed to run speedtest-cli: ", p.ioerr>>]
    ELSE RunnerOk(from_utf8_lossy(p.stdout))

\* RealSpeedtestRunner::run_speedtest
run_speedtest(p) ==
    IF ~p.spawned
    THEN [ok |-> FALSE, err |-> <<"Failed to run speedtest-cli: ", p.ioerr>>]
    ELSE IF p.success
    THEN RunnerOk(from_utf8_lossy(p.stdout))
    ELSE [ok |-> FALSE,
          err |-> <<"speedtest-cli failed: ", from_utf8_lossy(p.stderr)>>]

\* ---------------------------------------------------------- environment
NoVar == "unset"

\* A minutes value whose product with 60 exceeds u64::MAX:
\* 307445734561825861 * 60 = 2^64 + 44
BigMinutes == "307445734561825861"

IntervalEnv == {NoVar, "abc", "0", "1", BigMinutes}

\* BIND_PORT of the process environment
BindPortEnv == {NoVar, "abc", "65536"}
DefaultPort == "8080"

\* The characters of the environment strings
Chars(s) ==
    CASE s = "0"     -> <<"0">>
      [] s = "1"     -> <<"1">>
      [] s = "abc"   -> <<"a", "b", "c">>
      [] s = "8080"  -> <<"8", "0", "8", "0">>
      [] s = "65536" -> <<"6", "5", "5", "3", "6">>
      [] s = BigMinutes ->
            <<"3", "0", "7", "4", "4", "5", "7", "3", "4", "5", "6", "1",
              "8", "2", "5", "8", "6", "1">>

DigitChars == <<"0", "1", "2", "3", "4", "5", "6", "7", "8", "9">>
IsDigit(ch) == \E i \in 1..10 : DigitChars[i] = ch
Digit(ch) == (CHOOSE i \in 1..10 : DigitChars[i] = ch) - 1

\* A u64 is four 16-bit limbs, least significant first
Base == 65536
U64(n) == <<n % Base, (n \div Base) % Base, (n \div Base) \div Base, 0>>

\* x * k + a on a u64: the low 64 bits and what is carried out of them
MulAdd(x, k, a) ==
    LET l1 == x[1] * k + a
        l2 == x[2] * k + l1 \div Base
        l3 == x[3] * k + l2 \div Base
        l4 == x[4] * k + l3 \div Base
    IN  [val |-> <<l1 % Base, l2 % Base, l3 % Base, l4 % Base>>,
         carry |-> l4 \div Base]

\* <u64 as FromStr>::from_str: an optional '+', then one or more decimal
\* digits; a value above u64::MAX is an error
RECURSIVE ParseDigitsU64(_, _, _)
ParseDigitsU64(cs, i, acc) ==
    IF i > Len(cs) THEN [ok |-> TRUE, val |-> acc]
    ELSE IF ~IsDigit(cs[i]) THEN [ok |-> FALSE]
    ELSE LET m == MulAdd(acc, 10, Digit(cs[i]))
         IN  IF m.carry > 0 THEN [ok |-> FALSE]
             ELSE ParseDigitsU64(cs, i + 1, m.val)

ParseU64(s) ==
    LET cs   == Chars(s)
        body == IF cs # <<>> /\ cs[1] = "+" THEN Tail(cs) ELSE cs
    IN  IF body = <<>> THEN [ok |-> FALSE]
        ELSE ParseDigitsU64(body, 1, U64(0))

\* <u16 as FromStr>::from_str
RECURSIVE ParseDigitsU16(_, _, _)
ParseDigitsU16(cs, i, acc) ==
    IF i > Len(cs) THEN [ok |-> TRUE, val |-> acc]
    ELSE IF ~IsDigit(cs[i]) THEN [ok |-> FALSE]
    ELSE LET m == acc * 10 + Digit(cs[i])
         IN  IF m >= Base THEN [ok |-> FALSE]
             ELSE ParseDigitsU16(cs, i + 1, m)

ParseU16(s) ==
    LET cs   == Chars(s)
        body == IF cs # <<>> /\ cs[1] = "+" THEN Tail(cs) ELSE cs
    IN  IF body = <<>> THEN [ok |-> FALSE]
        ELSE ParseDigitsU16(body, 1, 0)

\* min_frequency_duration(): minutes * 60 on u64.  `overflow` says that the
\* product does not fit; `secs` is the product modulo 2^64
min_frequency_duration(var) ==
    LET parsed  == IF var = NoVar THEN [ok |-> FALSE] ELSE ParseU64(var)
        minutes == IF parsed.ok THEN parsed.val ELSE U64(DefaultMinutes)
        product == MulAdd(minutes, SecsPerMinute, 0)
    IN  [overflow |-> product.carry > 0, secs |-> product.val]

\* The seconds of a Duration as a number of the model's clock; every wrapped
\* or exact period of IntervalEnv is below 2^31
Seconds(d) == d[2] * Base + d[1]


\* serde_json serialisation of a SpeedTestResult: an object whose keys are
\* the field names; usize fields become integer numbers, f64 fields
\* floating numbers, the descriptors nested objects, share its Value
IntFields   == {"bytes_received", "bytes_sent"}
FloatFields == {"download_bps", "upload_bps", "download_mbps", "upload_mbps",
                "ping_ms"}

JsonValue(k, v) ==
    CASE k \in IntFields   -> [t |-> "integer", v |-> v]
      [] k \in FloatFields -> [t |-> "float", v |-> v]
      [] k = "timestamp"   -> [t |-> "string", v |-> v]
      [] k = "share"       -> [t |-> "value", v |-> v]
      [] OTHER             -> [t |-> "object", v |-> v]

ToJson(r) ==
    [kind |-> "object", fields |-> [k \in DOMAIN r |-> JsonValue(k, r[k])]]

\* serde_json::from_slice::<SpeedTestResult>(&body), as the tests read the
\* response
FromJson(body) == [k \in DOMAIN body.fields |-> body.fields[k].v]

\* --------------------------------------------------------------- state
VARIABLES
    env,            \* INTERVAL_MINUTES of the process environment
    bindEnv,        \* BIND_PORT of the process environment
    mainPc,         \* position of main
    now,            \* logical clock, minutes since process start
    cache,          \* contents of LAST_RESULT
    holders,        \* threads holding a MutexGuard of LAST_RESULT
    poisoned,       \* a thread panicked while holding the guard
    pc,             \* position of every thread
    op,             \* the API call a client is executing
    loc,            \* thread-local value: the entry being stored or cloned
    ret,            \* what the last call of a client returned
    interval,       \* scheduler local `interval`, seconds
    ticker,         \* scheduler local `ticker`
    cyclesStarted,  \* fetch cycles the scheduler has started
    cyclesDone,     \* fetch cycles the scheduler has finished
    ticksFired,     \* completed ticker.tick() awaits
    lastEnd,        \* clock at the end of the scheduler's previous cycle
    before,         \* cache when the scheduler's current cycle started
    outcome,        \* how the scheduler's last cycle ended
    lastWritten,    \* entry stored by the latest completed write
    written,        \* results stored in full so far
    calls,          \* API calls the clients have made
    runnerCalls,    \* run_speedtest invocations of a thread's current cycle
    parserCalls     \* serde_json::from_str calls of a thread's current cycle

vars == <<env, bindEnv, mainPc, now, cache, holders, poisoned, pc, op, loc,
          ret, interval, ticker, cyclesStarted, cyclesDone, ticksFired, lastEnd, before,
          outcome, lastWritten, written, calls, runnerCalls, parserCalls>>

startup == <<env, bindEnv, mainPc>>
schedVars == <<interval, ticker, cyclesStarted, cyclesDone, ticksFired,
               lastEnd, before, outcome>>
ghostWrite == <<lastWritten, written>>
cycleCounts == <<runnerCalls, parserCalls>>

\* Option<(SpeedTestResult, Instant)>
NoneEntry == [present |-> FALSE]
SomeEntry(r, at) == [present |-> TRUE, result |-> r, at |-> at]

\* The words of an entry a store or clone moves first, and those it moves last
FirstFields == {"bytes_received", "bytes_sent", "download_bps", "upload_bps",
                "download_mbps", "upload_mbps", "ping_ms"}
RestFields  == {"client", "server", "share", "timestamp"}

\* (an assignment that copies nothing)
OverlayKeeps(r, s, keys) == r

Overlay(r, s, keys) ==
    [k \in DOMAIN r |-> IF k \in keys THEN s[k] ELSE r[k]]

NoTicker == [made |-> FALSE]
NoOp     == [name |-> "none"]
NoRet    == [kind |-> "none"]
Unit     == [kind |-> "Unit"]
NoLoc    == NoneEntry

NowSecs == now * SecsPerMinute

\* Everything but the process environment and main
InitRest ==
    /\ now = 0
    /\ cache = NoneEntry
    /\ holders = {}
    /\ poisoned = FALSE
    /\ pc = [t \in Threads |-> IF t = Sched THEN "unspawned" ELSE "idle"]
    /\ op = [c \in Clients |-> NoOp]
    /\ loc = [t \in Threads |-> NoLoc]
    /\ ret = [c \in Clients |-> NoRet]
    /\ interval = 0
    /\ ticker = NoTicker
    /\ cyclesStarted = 0
    /\ cyclesDone = 0
    /\ ticksFired = 0
    /\ lastEnd = 0
    /\ before = NoneEntry
    /\ outcome = "none"
    /\ lastWritten = NoneEntry
    /\ written = {}
    /\ calls = 0
    /\ runnerCalls = [t \in Threads |-> 0]
    /\ parserCalls = [t \in Threads |-> 0]

\* The library under test: no main runs and nothing reads the environment
Init ==
    /\ env = NoVar
    /\ bindEnv = NoVar
    /\ mainPc = "none"
    /\ InitRest

\* The binary: main is about to run
InitProd ==
    /\ env \in IntervalEnv
    /\ bindEnv \in BindPortEnv
    /\ mainPc = "start"
    /\ InitRest


\* The counts of thread t's current cycle become r and p
SetCounts(t, r, p) ==
    /\ runnerCalls' = [runnerCalls EXCEPT ![t] = r]
    /\ parserCalls' = [parserCalls EXCEPT ![t] = p]

\* The counts when a call of t returns having parsed p times: a client's
\* are forgotten with the call, the scheduler's stay until its next cycle
EndCounts(t, p) ==
    IF t = Sched THEN SetCounts(t, runnerCalls[t], p) ELSE SetCounts(t, 0, 0)

\* ---------------------------------------------------------- the mutex
\* LAST_RESULT.lock() returns only while no other guard is alive
MutexFreeBroken == TRUE

MutexFree == holders = {}

\* LAST_RESULT.lock().unwrap(): the guard is taken; on a poisoned mutex
\* the unwrap panics and the guard is dropped again
Acquire(t) ==
    /\ pc[t] = "lock"
    /\ MutexFree
    /\ IF poisoned
       THEN /\ pc' = [pc EXCEPT ![t] = "panicked"]
            /\ UNCHANGED holders
       ELSE /\ pc' = [pc EXCEPT ![t] = "locked"]
            /\ holders' = holders \cup {t}
    /\ UNCHANGED <<startup, now, cache, poisoned, op, loc, ret, schedVars,
                   ghostWrite, calls, cycleCounts>>

OpName(t) == IF t = Sched THEN "cycle" ELSE op[t].name

ReadOps  == {"get_last_result", "get_cached_speedtest_result", "speedtest"}
StoreOps == {"set_last_result_for_test", "cycle"}

\* A client's call returns v
Return(c, v) ==
    /\ pc' = [pc EXCEPT ![c] = "idle"]
    /\ ret' = [ret EXCEPT ![c] = v]
    /\ op' = [op EXCEPT ![c] = NoOp]

\* ------------------------------------------------------------ the reads
\* (a read that falls back to a default value instead of reporting absence)
ReadResultOrDefault(name, e) ==
    CASE name = "get_last_result" ->
            [kind |-> "Some",
             val |-> IF e.present THEN e.result ELSE DefaultResult]
      [] name = "get_cached_speedtest_result" ->
            [kind |-> "Ok",
             val |-> IF e.present THEN e.result ELSE DefaultResult]
      [] name = "speedtest" ->
            [kind |-> "Http", status |-> 200,
             body |-> ToJson(IF e.present THEN e.result ELSE DefaultResult)]

\* (a query service with an error text of its own)
ReadResultOwnText(name, e) ==
    CASE name = "get_last_result" ->
            IF e.present THEN [kind |-> "Some", val |-> e.result]
            ELSE [kind |-> "None"]
      [] name = "get_cached_speedtest_result" ->
            IF e.present THEN [kind |-> "Ok", val |-> e.result]
            ELSE [kind |-> "Err", msg |-> "No speedtest result cached."]
      [] name = "speedtest" ->
            IF e.present
            THEN [kind |-> "Http", status |-> 200, body |-> ToJson(e.result)]
            ELSE [kind |-> "Http", status |-> 503, body |-> NotReadyText]

\* What each read path makes of the entry under the guard
ReadResult(name, e) ==
    CASE name = "get_last_result" ->
            IF e.present THEN [kind |-> "Some", val |-> e.result]
            ELSE [kind |-> "None"]
      [] name = "get_cached_speedtest_result" ->
            IF e.present THEN [kind |-> "Ok", val |-> e.result]
            ELSE [kind |-> "Err", msg |-> NotReadyText]
      [] name = "speedtest" ->
            IF e.present
            THEN [kind |-> "Http", status |-> 200, body |-> ToJson(e.result)]
            ELSE [kind |-> "Http", status |-> 503, body |-> NotReadyText]

\* The body of a read under the guard: the entry is cloned (or serialised),
\* the value is returned and the guard is dropped
Load(c) ==
    /\ pc[c] = "locked"
    /\ op[c].name \in ReadOps
    /\ Return(c, ReadResult(op[c].name, cache))
    /\ holders' = holders \ {c}
    /\ UNCHANGED <<startup, now, cache, poisoned, loc, schedVars, ghostWrite,
                   calls, cycleCounts>>

\* What a caller makes of a result it was handed
Scribble(r) == [r EXCEPT !.timestamp = "overwritten", !.ping_ms = F(0)]

\* (a read that hands out the cached value itself, not a clone)
ModifyReturnedShared(c) ==
    /\ pc[c] = "idle"
    /\ ret[c].kind \in {"Some", "Ok"}
    /\ ret[c].val # Scribble(ret[c].val)
    /\ ret' = [ret EXCEPT ![c].val = Scribble(@)]
    /\ cache' = IF cache.present /\ cache.result = ret[c].val
                THEN [cache EXCEPT !.result = Scribble(@)]
                ELSE cache
    /\ UNCHANGED <<startup, now, holders, poisoned, pc, op, loc, schedVars,
                   ghostWrite, calls, cycleCounts>>

\* The caller modifies the SpeedTestResult that get_last_result or
\* get_cached_speedtest_result returned: it owns a clone, the cache is not
\* reachable through it
ModifyReturned(c) ==
    /\ pc[c] = "idle"
    /\ ret[c].kind \in {"Some", "Ok"}
    /\ ret[c].val # Scribble(ret[c].val)
    /\ ret' = [ret EXCEPT ![c].val = Scribble(@)]
    /\ cache' = cache
    /\ UNCHANGED <<startup, now, holders, poisoned, pc, op, loc, schedVars,
                   ghostWrite, calls, cycleCounts>>

\* ----------------------------------------------------------- the writes
\* (a cycle that unwraps the parse result, so that malformed output panics)
CycleEndsUnwrap(t, how) ==
    IF t = Sched
    THEN /\ pc' = [pc EXCEPT ![t] = IF how = "malformed" THEN "panicked"
                                    ELSE IF cyclesDone = 0 THEN "make_ticker"
                                    ELSE "tick"]
         /\ cyclesDone' = cyclesDone + 1
         /\ lastEnd' = now
         /\ outcome' = how
         /\ UNCHANGED <<ret, op, interval, ticker, cyclesStarted,
                        ticksFired, before>>
    ELSE /\ Return(t, Unit)
         /\ UNCHANGED schedVars

\* How a fetch cycle of thread t ends.  The scheduler goes on to build its
\* ticker after the first cycle and to the loop after the others.
CycleEnds(t, how) ==
    IF t = Sched
    THEN /\ pc' = [pc EXCEPT ![t] = IF cyclesDone = 0 THEN "make_ticker"
                                    ELSE "tick"]
         /\ cyclesDone' = cyclesDone + 1
         /\ lastEnd' = now
         /\ outcome' = how
         /\ UNCHANGED <<ret, op, interval, ticker, cyclesStarted,
                        ticksFired, before>>
    ELSE /\ Return(t, Unit)
         /\ UNCHANGED schedVars

\* (a store that takes the lock anew for each half of the entry)
StoreFirstUnlocks(t) ==
    /\ pc[t] = "locked"
    /\ OpName(t) \in StoreOps
    /\ LET r   == IF OpName(t) = "cycle" THEN loc[t].result ELSE op[t].arg
           old == IF cache.present THEN cache.result ELSE DefaultResult
       IN  /\ loc' = [loc EXCEPT ![t] = SomeEntry(r, now)]
           /\ cache' = [present |-> TRUE,
                        result |-> Overlay(old, r, FirstFields),
                        at |-> IF cache.present THEN cache.at ELSE 0]
    /\ pc' = [pc EXCEPT ![t] = "store_rest"]
    /\ holders' = holders \ {t}
    /\ UNCHANGED <<startup, now, poisoned, op, ret, schedVars, ghostWrite, calls, cycleCounts>>

\* Some((result, Instant::now())) is built and its first words are stored
\* over the old entry
StoreFirst(t) ==
    /\ pc[t] = "locked"
    /\ OpName(t) \in StoreOps
    /\ LET r   == IF OpName(t) = "cycle" THEN loc[t].result ELSE op[t].arg
           old == IF cache.present THEN cache.result ELSE DefaultResult
       IN  /\ loc' = [loc EXCEPT ![t] = SomeEntry(r, now)]
           /\ cache' = [present |-> TRUE,
                        result |-> Overlay(old, r, FirstFields),
                        at |-> IF cache.present THEN cache.at ELSE 0]
    /\ pc' = [pc EXCEPT ![t] = "store_rest"]
    /\ UNCHANGED <<startup, now, holders, poisoned, op, ret, schedVars,
                   ghostWrite, calls, cycleCounts>>

\* The remaining words are stored; println! (fetch cycle only); the guard is
\* dropped at the end of the scope
StoreRest(t) ==
    /\ pc[t] = "store_rest"
    /\ LET r == loc[t].result
       IN  /\ cache' = SomeEntry(Overlay(cache.result, r, RestFields),
                                 loc[t].at)
           /\ lastWritten' = SomeEntry(r, loc[t].at)
           /\ written' = written \cup {r}
    /\ holders' = holders \ {t}
    /\ loc' = [loc EXCEPT ![t] = NoLoc]
    /\ CycleEnds(t, "written")
    /\ EndCounts(t, parserCalls[t])
    /\ UNCHANGED <<startup, now, poisoned, calls>>

\* *cache = None, then the guard is dropped
\* (a clear that leaves the entry where it is)
StoreNoneKeeps(c) ==
    /\ pc[c] = "locked"
    /\ op[c].name = "clear_last_result_for_test"
    /\ cache' = cache
    /\ lastWritten' = NoneEntry
    /\ holders' = holders \ {c}
    /\ Return(c, Unit)
    /\ UNCHANGED <<startup, now, poisoned, loc, schedVars, written, calls, cycleCounts>>

StoreNone(c) ==
    /\ pc[c] = "locked"
    /\ op[c].name = "clear_last_result_for_test"
    /\ cache' = NoneEntry
    /\ lastWritten' = NoneEntry
    /\ holders' = holders \ {c}
    /\ Return(c, Unit)
    /\ UNCHANGED <<startup, now, poisoned, loc, schedVars, written, calls, cycleCounts>>

\* ------------------------------------------------------ the fetch cycle
\* What RealSpeedtestRunner (or a mock) can return
RunnerResults == {SpawnFailed, ToolFailed} \cup {RunnerOk(s) : s \in Stdouts}

RunnerErrArmResets(c) == NoneEntry

ParseErrArmResets(c) == NoneEntry

\* Err(e) => eprintln!("{}", e): the arm does not touch the cache
RunnerErrArm(c) == c

\* Err(e) => eprintln!("Failed to parse speedtest-cli JSON: {}", e)
ParseErrArm(c) == c

\* The child process of the scheduler's RealSpeedtestRunner ends and
\* runner.run_speedtest().await returns
ProcessEnds ==
    /\ pc[Sched] = "await_runner"
    /\ \E p \in ProcOutcomes :
         loc' = [loc EXCEPT ![Sched] = [proc |-> p, res |-> run_speedtest(p)]]
    /\ pc' = [pc EXCEPT ![Sched] = "match"]
    /\ UNCHANGED <<startup, now, cache, holders, poisoned, op, ret, schedVars,
                   ghostWrite, calls, cycleCounts>>

\* A caller's own SpeedtestRunner returns from run_speedtest: any
\* Result<String, String>
TraitRunnerReturns(c) ==
    /\ pc[c] = "await_runner"
    /\ \E res \in RunnerResults :
         loc' = [loc EXCEPT ![c] = [res |-> res]]
    /\ pc' = [pc EXCEPT ![c] = "match"]
    /\ UNCHANGED <<startup, now, cache, holders, poisoned, op, ret, schedVars,
                   ghostWrite, calls, cycleCounts>>

\* (a cycle that invokes the runner a second time when it has failed)
RunnerReturnRetries(t) ==
    /\ pc[t] = "match"
    /\ LET res == loc[t].res
       IN  IF ~res.ok /\ runnerCalls[t] < 2
           THEN /\ pc' = [pc EXCEPT ![t] = "await_runner"]
                /\ SetCounts(t, runnerCalls[t] + 1, parserCalls[t])
                /\ loc' = [loc EXCEPT ![t] = NoLoc]
                /\ UNCHANGED <<cache, ret, op, schedVars>>
           ELSE IF ~res.ok
           THEN /\ cache' = RunnerErrArm(cache)
                /\ CycleEnds(t, "runner_failed")
                /\ EndCounts(t, parserCalls[t])
                /\ loc' = [loc EXCEPT ![t] = NoLoc]
           ELSE LET parsed == from_str(res.stdout)
                IN  IF ~parsed.ok
                    THEN /\ cache' = ParseErrArm(cache)
                         /\ CycleEnds(t, "malformed")
                         /\ EndCounts(t, parserCalls[t] + 1)
                         /\ loc' = [loc EXCEPT ![t] = NoLoc]
                    ELSE /\ loc' = [loc EXCEPT
                                      ![t] = SomeEntry(
                                                MakeResult(parsed.data), 0)]
                         /\ pc' = [pc EXCEPT ![t] = "lock"]
                         /\ SetCounts(t, runnerCalls[t], parserCalls[t] + 1)
                         /\ UNCHANGED <<cache, ret, op, schedVars>>
    /\ UNCHANGED <<startup, now, holders, poisoned, ghostWrite, calls>>

\* The match on the runner's result is evaluated up to the lock
RunnerReturn(t) ==
    /\ pc[t] = "match"
    /\ LET res == loc[t].res
       IN  IF ~res.ok
           THEN /\ cache' = RunnerErrArm(cache)
                /\ CycleEnds(t, "runner_failed")
                /\ EndCounts(t, parserCalls[t])
                /\ loc' = [loc EXCEPT ![t] = NoLoc]
           ELSE LET parsed == from_str(res.stdout)
                IN  IF ~parsed.ok
                    THEN /\ cache' = ParseErrArm(cache)
                         /\ CycleEnds(t, "malformed")
                         /\ EndCounts(t, parserCalls[t] + 1)
                         /\ loc' = [loc EXCEPT ![t] = NoLoc]
                    ELSE /\ loc' = [loc EXCEPT
                                      ![t] = SomeEntry(
                                                MakeResult(parsed.data), 0)]
                         /\ pc' = [pc EXCEPT ![t] = "lock"]
                         /\ SetCounts(t, runnerCalls[t], parserCalls[t] + 1)
                         /\ UNCHANGED <<cache, ret, op, schedVars>>
    /\ UNCHANGED <<startup, now, holders, poisoned, ghostWrite, calls>>

\* ------------------------------------------------- a failing log sink
\* println!("Speedtest updated: ..") panics when stdout cannot be written
\* (a closed pipe).  The entry has been stored and the guard is alive, so
\* unwinding drops the guard and poisons the mutex
PrintlnFails(t) ==
    /\ pc[t] = "store_rest"
    /\ OpName(t) = "cycle"
    /\ LET r == loc[t].result
       IN  /\ cache' = SomeEntry(Overlay(cache.result, r, RestFields),
                                 loc[t].at)
           /\ lastWritten' = SomeEntry(r, loc[t].at)
           /\ written' = written \cup {r}
    /\ poisoned' = TRUE
    /\ holders' = holders \ {t}
    /\ pc' = [pc EXCEPT ![t] = "panicked"]
    /\ loc' = [loc EXCEPT ![t] = NoLoc]
    /\ UNCHANGED <<startup, now, op, ret, schedVars, calls, cycleCounts>>

\* eprintln! of a failed cycle panics when stderr cannot be written; no
\* guard is alive in the two error arms
EprintlnFails(t) ==
    /\ pc[t] = "match"
    /\ LET res == loc[t].res
       IN  /\ IF res.ok THEN ~from_str(res.stdout).ok ELSE TRUE
           /\ SetCounts(t, runnerCalls[t],
                        IF res.ok THEN parserCalls[t] + 1 ELSE parserCalls[t])
    /\ pc' = [pc EXCEPT ![t] = "panicked"]
    /\ loc' = [loc EXCEPT ![t] = NoLoc]
    /\ UNCHANGED <<startup, now, cache, holders, poisoned, op, ret, schedVars,
                   ghostWrite, calls>>

\* ------------------------------------------------------- the scheduler
\* Whether the build checks integer overflow (debug profile) or lets it
\* wrap (release profile)
OverflowChecks == BOOLEAN

\* (a scheduler that relies on the ticker for its first cycle)
SchedStartNoInitialRun ==
    /\ pc[Sched] = "start"
    /\ interval' = Seconds(min_frequency_duration(env).secs)
    /\ pc' = [pc EXCEPT ![Sched] = "make_ticker"]
    /\ UNCHANGED <<startup, now, cache, holders, poisoned, op, loc, ret, ticker,
                   cyclesStarted, cyclesDone, ticksFired, lastEnd, before,
                   outcome, ghostWrite, calls, cycleCounts>>

\* spawn_speedtest_scheduler up to the first await: the interval is read
\* and the first fetch cycle invokes the runner
SchedStart ==
    /\ pc[Sched] = "start"
    /\ \E checks \in OverflowChecks :
         LET d == min_frequency_duration(env)
         IN  IF d.overflow /\ checks
             THEN /\ pc' = [pc EXCEPT ![Sched] = "panicked"]
                  /\ UNCHANGED <<interval, cyclesStarted, before,
                                 cycleCounts>>
             ELSE /\ interval' = Seconds(d.secs)
                  /\ cyclesStarted' = 1
                  /\ before' = cache
                  /\ SetCounts(Sched, 1, 0)
                  /\ pc' = [pc EXCEPT ![Sched] = "await_runner"]
    /\ UNCHANGED <<startup, now, cache, holders, poisoned, op, loc, ret,
                   ticker, cyclesDone, ticksFired, lastEnd, outcome,
                   ghostWrite, calls>>

\* time::interval(period) created at time `at`: the first tick is due at
\* once, the following ones every period after it
NewInterval(period, at) ==
    [made |-> TRUE, deadline |-> at, period |-> period, start |-> at]

\* let mut ticker = time::interval(interval), which panics on a zero period
MakeTicker ==
    /\ pc[Sched] = "make_ticker"
    /\ IF interval = 0
       THEN /\ pc' = [pc EXCEPT ![Sched] = "panicked"]
            /\ UNCHANGED ticker
       ELSE /\ ticker' = NewInterval(interval, NowSecs)
            /\ pc' = [pc EXCEPT ![Sched] = "tick"]
    /\ UNCHANGED <<startup, now, cache, holders, poisoned, op, loc, ret, interval,
                   cyclesStarted, cyclesDone, ticksFired, lastEnd, before,
                   outcome, ghostWrite, calls, cycleCounts>>

\* ticker.tick().await completes once the deadline is reached
TickDue == NowSecs >= ticker.deadline

\* The tick completes, the next deadline is one period after this one
\* (MissedTickBehavior::Burst), and the next fetch cycle invokes the runner
\* (a cycle that takes the guard before it invokes the runner)
TickHoldingGuard ==
    /\ pc[Sched] = "tick"
    /\ TickDue
    /\ cyclesStarted < MaxCycles
    /\ ticker' = [ticker EXCEPT !.deadline = @ + ticker.period]
    /\ ticksFired' = ticksFired + 1
    /\ cyclesStarted' = cyclesStarted + 1
    /\ before' = cache
    /\ SetCounts(Sched, 1, 0)
    /\ holders' = holders \cup {Sched}
    /\ pc' = [pc EXCEPT ![Sched] = "await_runner"]
    /\ UNCHANGED <<startup, now, cache, poisoned, op, loc, ret, interval,
                   cyclesDone, lastEnd, outcome, ghostWrite, calls>>

\* (a timer that starts the next cycle when it is due, whether or not the
\* current one has returned)
TickOverlapping ==
    /\ pc[Sched] \in {"tick", "await_runner", "match"}
    /\ ticker.made
    /\ TickDue
    /\ cyclesStarted < MaxCycles
    /\ ticker' = [ticker EXCEPT !.deadline = @ + ticker.period]
    /\ ticksFired' = ticksFired + 1
    /\ cyclesStarted' = cyclesStarted + 1
    /\ before' = cache
    /\ SetCounts(Sched, 1, 0)
    /\ pc' = [pc EXCEPT ![Sched] = "await_runner"]
    /\ UNCHANGED <<startup, now, cache, holders, poisoned, op, loc, ret,
                   interval, cyclesDone, lastEnd, outcome, ghostWrite, calls>>

Tick ==
    /\ pc[Sched] = "tick"
    /\ TickDue
    /\ cyclesStarted < MaxCycles
    /\ ticker' = [ticker EXCEPT !.deadline = @ + ticker.period]
    /\ ticksFired' = ticksFired + 1
    /\ cyclesStarted' = cyclesStarted + 1
    /\ before' = cache
    /\ SetCounts(Sched, 1, 0)
    /\ pc' = [pc EXCEPT ![Sched] = "await_runner"]
    /\ UNCHANGED <<startup, now, cache, holders, poisoned, op, loc, ret, interval,
                   cyclesDone, lastEnd, outcome, ghostWrite, calls>>

AdvanceClock ==
    /\ now < MaxTime
    /\ now' = now + 1
    /\ UNCHANGED <<startup, cache, holders, poisoned, pc, op, loc, ret, schedVars,
                   ghostWrite, calls, cycleCounts>>

\* ------------------------------------------------------- the API calls
Call(c, o, first) ==
    /\ pc[c] = "idle"
    /\ calls < MaxCalls
    /\ calls' = calls + 1
    /\ op' = [op EXCEPT ![c] = o]
    /\ pc' = [pc EXCEPT ![c] = first]
    /\ ret' = [ret EXCEPT ![c] = NoRet]
    /\ IF o.name = "cycle" THEN SetCounts(c, 1, 0) ELSE UNCHANGED cycleCounts
    /\ UNCHANGED <<startup, now, cache, holders, poisoned, loc, schedVars,
                   ghostWrite>>

get_last_result(c) == Call(c, [name |-> "get_last_result"], "lock")

get_cached_speedtest_result(c) ==
    Call(c, [name |-> "get_cached_speedtest_result"], "lock")

speedtest(c) == Call(c, [name |-> "speedtest"], "lock")

set_last_result_for_test(c, r) ==
    Call(c, [name |-> "set_last_result_for_test", arg |-> r], "lock")

clear_last_result_for_test(c) ==
    Call(c, [name |-> "clear_last_result_for_test"], "lock")

run_speedtest_and_cache_with_runner(c) ==
    Call(c, [name |-> "cycle"], "await_runner")

\* ------------------------------------------------------------- main
\* (a main that falls back to the default port)
mainDefaultsPort ==
    /\ mainPc = "start"
    /\ mainPc' = "serving"
    /\ pc' = [pc EXCEPT ![Sched] = "start"]
    /\ UNCHANGED <<env, bindEnv, now, cache, holders, poisoned, op, loc, ret,
                   schedVars, ghostWrite, calls, cycleCounts>>

\* main: BIND_PORT is parsed (expect panics on an error), the scheduler task
\* is spawned and the server is bound; on the single-threaded actix runtime
\* the spawned task first runs when main awaits the server
main ==
    /\ mainPc = "start"
    /\ LET port == ParseU16(IF bindEnv = NoVar THEN DefaultPort ELSE bindEnv)
       IN  IF ~port.ok
           THEN /\ mainPc' = "panicked"
                /\ UNCHANGED pc
           ELSE /\ mainPc' = "serving"
                /\ pc' = [pc EXCEPT ![Sched] = "start"]
    /\ UNCHANGED <<env, bindEnv, now, cache, holders, poisoned, op, loc, ret,
                   schedVars, ghostWrite, calls, cycleCounts>>

\* ------------------------------------------------------ specifications
\* Production: the scheduler task and the request handlers
NextProd ==
    \/ main
    \/ SchedStart
    \/ ProcessEnds
    \/ RunnerReturn(Sched)
    \/ Acquire(Sched)
    \/ StoreFirst(Sched)
    \/ StoreRest(Sched)
    \/ MakeTicker
    \/ Tick
    \/ AdvanceClock
    \/ \E c \in Handlers :
         \/ mainPc = "serving" /\ speedtest(c)
         \/ mainPc = "serving" /\ get_cached_speedtest_result(c)
         \/ mainPc = "serving" /\ get_last_result(c)
         \/ Acquire(c)
         \/ Load(c)

SpecProd == InitProd /\ [][NextProd]_vars

\* Production without the assumption that stdout and stderr accept every
\* write
NextSink ==
    \/ NextProd
    \/ PrintlnFails(Sched)
    \/ EprintlnFails(Sched)

SpecSink == InitProd /\ [][NextSink]_vars

\* The library as the tests and benches use it: any thread calls anything
\* the crate exports; no scheduler task is spawned
Next ==
    \/ AdvanceClock
    \/ \E c \in Clients :
         \/ speedtest(c)
         \/ get_cached_speedtest_result(c)
         \/ get_last_result(c)
         \/ clear_last_result_for_test(c)
         \/ run_speedtest_and_cache_with_runner(c)
         \/ \E r \in TestResults : set_last_result_for_test(c, r)
         \/ TraitRunnerReturns(c)
         \/ RunnerReturn(c)
         \/ Acquire(c)
         \/ Load(c)
         \/ StoreFirst(c)
         \/ StoreRest(c)
         \/ StoreNone(c)
         \/ ModifyReturned(c)

Spec == Init /\ [][Next]_vars


\* ================================================================ claims
HasValue(v) == v.kind \in {"Some", "Ok"} \/ (v.kind = "Http" /\ v.status = 200)
Observed(v) == IF v.kind = "Http" THEN FromJson(v.body) ELSE v.val

\* The scheduler is between two fetch cycles (or has stopped after one)
BetweenCycles == cyclesDone = cyclesStarted /\ cyclesDone > 0

\* C1: after a fetch cycle of the scheduler whose runner returned a failure,
\* the cache is the cache the cycle found: the same entry if one was cached,
\* absent if none was.
C1_RunnerFailureKeepsCache ==
    (BetweenCycles /\ outcome = "runner_failed") => cache = before

C1_Witness ==
    /\ BetweenCycles
    /\ outcome = "runner_failed"
    /\ cache.present
    /\ cyclesDone >= 2

\* C2: the step that ends a fetch cycle on unparseable output writes
\* nothing (the cache is the one the cycle found, the lock is untouched) and
\* leaves the scheduler at its next statement, not terminated.
C2_MalformedKeepsCacheAndScheduler ==
    [][(cyclesDone' = cyclesDone + 1 /\ outcome' = "malformed")
          => /\ cache' = before
             /\ cache' = cache
             /\ holders' = holders
             /\ pc'[Sched] \in {"make_ticker", "tick"}]_vars

C2_Witness ==
    /\ BetweenCycles
    /\ outcome = "malformed"
    /\ cache.present
    /\ pc[Sched] = "tick"

\* C3: every entry a reader has observed equals, in all its fields, a
\* result that one write stored in full.
C3_NoTornRead ==
    \A c \in Clients : HasValue(ret[c]) => Observed(ret[c]) \in written

\* a reader is waiting for the lock while a write has overwritten only the
\* first half of a fully written entry
C3_Witness ==
    \E c \in Clients :
        /\ pc[c] = "lock"
        /\ op[c].name \in ReadOps
        /\ pc[Sched] = "store_rest"
        /\ lastWritten.present
        /\ cache.result \notin written

\* C4: reads and writes take effect one at a time in lock order: a read
\* returns the entry of the latest write completed when it returns (absent
\* if there is none), and no write is half done at that point; so a read
\* begun after the write of cycle N+1 never returns the entry of cycle N.
C4_ReadsSeeLatestWrite ==
    [][\A c \in Clients :
          (pc[c] = "locked" /\ pc'[c] = "idle" /\ op[c].name \in ReadOps)
             => /\ HasValue(ret'[c]) = lastWritten.present
                /\ lastWritten.present
                      => Observed(ret'[c]) = lastWritten.result
                /\ \A t \in Threads : pc[t] # "store_rest"]_vars

\* a read has returned the entry of the scheduler's second successful cycle
C4_Witness ==
    \E c \in Clients :
        /\ HasValue(ret[c])
        /\ Cardinality(written) = 2
        /\ Observed(ret[c]) = lastWritten.result
        /\ outcome = "written"
        /\ BetweenCycles

\* C5: at most one thread is inside the critical section of the cache, and
\* when no call is in progress the cache is, in full, the entry of one of
\* the writes (the last one to complete).
C5_OneWriterAtATime ==
    /\ Cardinality(holders) <= 1
    /\ (\A c \in Clients : pc[c] = "idle")
          => /\ cache = lastWritten
             /\ cache.present => cache.result \in written

\* a fetch cycle is half way through its store while a set or clear waits
C5_Witness ==
    \E c, d \in Clients :
        /\ c # d
        /\ op[c].name = "cycle"
        /\ pc[c] = "store_rest"
        /\ pc[d] = "lock"
        /\ op[d].name \in {"set_last_result_for_test",
                           "clear_last_result_for_test"}

\* C6: the cache is absent at process start, and as long as no fetch cycle
\* has completed a write every get_cached_speedtest_result call has failed
\* with the not-ready text (and the other read paths reported absent).
C6_NotReadyBeforeFirstSuccess ==
    /\ pc[Sched] \in {"unspawned", "start"} => cache = NoneEntry
    /\ written = {}
          => /\ holders = {} => ~cache.present
             /\ \A c \in Clients :
                   /\ ~HasValue(ret[c])
                   /\ ret[c].kind = "Err" => ret[c].msg = NotReadyText

\* a call has returned not-ready after two fetch cycles failed
C6_Witness ==
    /\ written = {}
    /\ cyclesDone >= 2
    /\ \E c \in Clients : ret[c].kind = "Err"

\* C7: with the scheduler as only writer, the cache as readers can see it
\* (no store half done) is absent exactly when no cycle has succeeded, and
\* is otherwise the entry of the most recent successful cycle; once present
\* it is never absent again.
C7_CacheIsLatestSuccess ==
    /\ [](holders = {}
             => /\ cache = lastWritten
                /\ cache.present <=> written # {})
    /\ [][cache.present => cache'.present]_vars

\* two cycles stored different results, a third failed
C7_Witness ==
    /\ BetweenCycles
    /\ outcome \in {"runner_failed", "malformed"}
    /\ Cardinality(written) = 2
    /\ cache.present

\* C8: the scheduler's first step invokes the runner, for every configured
\* interval, and until that first cycle has ended no ticker exists and no
\* tick is awaited or completed.
C8_FirstCycleBeforeAnyTick ==
    /\ cyclesStarted = 0 <=> pc[Sched] \in {"unspawned", "start"}
    /\ cyclesDone = 0
          => /\ ~ticker.made
             /\ ticksFired = 0
             /\ pc[Sched] \notin {"make_ticker", "tick"}

\* the first cycle is in flight at time 0 and no ticker exists yet
C8_Witness ==
    /\ pc[Sched] = "await_runner"
    /\ cyclesStarted = 1
    /\ ~ticker.made
    /\ now = 0
    /\ interval > 0

\* C9 (as claimed): a fetch cycle other than the initial one starts only
\* after a wait of one interval since the previous cycle ended, or (from the
\* second tick on) one interval after the previous tick was due.
C9_EveryLaterCycleWaits ==
    [][(ticksFired' = ticksFired + 1)
          => \/ (now - lastEnd) * SecsPerMinute >= interval
             \/ ticksFired >= 1]_vars

\* C10 (as claimed): with an interval of one minute, once the ticker has
\* ticked twice and the cycle of the second tick has ended, exactly two
\* fetch cycles have executed.
C10_TwoTicksTwoCycles ==
    (interval = SecsPerMinute /\ ticksFired = 2 /\ BetweenCycles)
        => cyclesDone = 2

\* C11: the scheduler has no terminal state: whatever the fetch cycles did,
\* the scheduler task is at a statement of its loop and has not terminated.
C11_SchedulerNeverTerminates == pc[Sched] # "panicked"

\* C12: with INTERVAL_MINUTES=0 the scheduler keeps running on a ticker
\* whose period is some accepted minimum above zero, so cycles are not run
\* back to back.
C12_ZeroIntervalGuarded ==
    (env = "0" /\ cyclesDone >= 1)
       => /\ pc[Sched] # "panicked"
          /\ pc[Sched] # "make_ticker" => (ticker.made /\ ticker.period > 0)

\* C13: the /speed handler answers 200 with the serialised cached result
\* when the cache is present at the moment it reads and 503 with the body
\* "Speedtest result not available yet." when it is absent, and it gives no
\* other response.
C13_SpeedAnswers200Or503 ==
    [][\A c \in Clients :
          (pc[c] = "locked" /\ pc'[c] = "idle" /\ op[c].name = "speedtest")
             => /\ ret'[c].kind = "Http"
                /\ IF cache.present
                   THEN /\ ret'[c].status = 200
                        /\ ret'[c].body.kind = "object"
                        /\ FromJson(ret'[c].body) = cache.result
                   ELSE /\ ret'[c].status = 503
                        /\ ret'[c].body = NotReadyText]_vars

\* one handler has answered 503 and another 200
C13_Witness ==
    \E c, d \in Clients :
        /\ ret[c].kind = "Http" /\ ret[c].status = 200
        /\ ret[d].kind = "Http" /\ ret[d].status = 503

\* C14: a read that follows a completed write of r, with no write between
\* them, returns a present value equal to r, whatever the cache held before
\* the write.
C14_ReadReturnsWhatWasWritten ==
    [][\A c \in Clients :
          (pc[c] = "locked" /\ pc'[c] = "idle" /\ op[c].name \in ReadOps
             /\ lastWritten.present)
             => /\ HasValue(ret'[c])
                /\ Observed(ret'[c]) = lastWritten.result]_vars

\* set_last_result_for_test(dummy_result) has replaced an entry stored
\* before it, and get_last_result has returned dummy_result
C14_Witness ==
    \E c \in Clients :
        /\ ret[c].kind = "Some"
        /\ ret[c].val = dummy_result
        /\ Cardinality(written) = 2
        /\ calls = 3

\* C15: clear_last_result_for_test leaves the cache absent from every prior
\* state (so a second clear changes nothing), and a read that follows it
\* with no write between them reports absent: None, the not-ready error, or
\* 503 from /speed.
C15_ClearThenReadIsAbsent ==
    [][\A c \in Clients :
          /\ (pc[c] = "locked" /\ pc'[c] = "idle"
                /\ op[c].name = "clear_last_result_for_test")
                => cache' = NoneEntry
          /\ (pc[c] = "locked" /\ pc'[c] = "idle" /\ op[c].name \in ReadOps
                /\ ~lastWritten.present)
                => /\ ~HasValue(ret'[c])
                   /\ ret'[c].kind = "Http"
                         => /\ ret'[c].status = 503
                            /\ ret'[c].body = NotReadyText]_vars

\* one thread has stored a result, cleared the cache and then been told by
\* /speed that no result is available
C15_Witness ==
    /\ ret["c1"].kind = "Http"
    /\ ret["c1"].status = 503
    /\ ret["c2"] = NoRet
    /\ pc["c2"] = "idle"
    /\ written # {}
    /\ ~cache.present
    /\ calls = 3

\* C16: before the first fetch cycle ends the query service reports not
\* ready; when the first cycle has ended with a valid payload the cache
\* holds, completely written and unlocked, the result of that payload with
\* download_mbps = download / 1_000_000 and upload_mbps = upload / 1_000_000
\* (50_000_000 gives 50), and the query service returns it.
C16_FirstCycleEndToEnd ==
    /\ cyclesDone = 0
          => \A c \in Clients : ret[c].kind \in {"Ok", "Err"}
                                   => ret[c].kind = "Err"
    /\ (cyclesDone = 1 /\ cyclesStarted = 1 /\ outcome = "written")
          => /\ cache.present
             /\ Sched \notin holders
             /\ cache.result.download_bps = F(50000000)
                   => cache.result.download_mbps = F(50)
             /\ cache.result.upload_bps = F(10000000)
                   => cache.result.upload_mbps = F(10)
             /\ cache.result.download_bps = F(1500000)
                   => cache.result.download_mbps = [num |-> 3, den |-> 2]
             /\ cache.result.upload_bps = F(250000)
                   => cache.result.upload_mbps = [num |-> 1, den |-> 4]
             /\ cache.result.download_bps \in {F(50000000), F(1500000)}
             /\ cache.result.upload_bps \in {F(10000000), F(250000)}
             /\ \A c \in Clients :
                   ret[c].kind = "Ok" => ret[c].val = cache.result

\* the query service has returned the 50 Mbps result of the first cycle
C16_Witness ==
    /\ cyclesDone = 1
    /\ cyclesStarted = 1
    /\ outcome = "written"
    /\ \E c \in Clients :
          /\ ret[c].kind = "Ok"
          /\ ret[c].val.download_mbps = F(50)
          /\ ret[c].val.upload_mbps = F(10)

\* x = y / 1_000_000 on the fractions that stand for f64 values
IsPerMillion(x, y) == x.num * BpsPerMbps * y.den = y.num * x.den

DerivedFieldsAgree(r) ==
    /\ IsPerMillion(r.download_mbps, r.download_bps)
    /\ IsPerMillion(r.upload_mbps, r.upload_bps)

\* C17 as stated: in every reachable state a completely stored cached
\* value has download_mbps = download_bps / 1_000_000 and upload_mbps =
\* upload_bps / 1_000_000, whichever way it entered the cache.
C17_DerivedFieldsAlwaysAgree ==
    (cache.present /\ holders = {}) => DerivedFieldsAgree(cache.result)

\* C17, amended: a cached value stored by a fetch cycle has download_mbps =
\* download_bps / 1_000_000 and upload_mbps = upload_bps / 1_000_000; a
\* value stored by set_last_result_for_test is the caller's argument as
\* given.
C17_CycleValuesAgree ==
    (cache.present /\ holders = {})
       => \/ DerivedFieldsAgree(cache.result)
          \/ cache.result \in TestResults

\* a fetch cycle has replaced the skewed value a test had stored
C17_Witness ==
    /\ cache.present
    /\ holders = {}
    /\ cache.result \notin TestResults
    /\ skewed_result \in written

\* C18: a completely stored result of the scheduler carries the fields of
\* one runner payload unmodified: the byte counters, download as
\* download_bps, upload as upload_bps, ping as ping_ms, client, server,
\* timestamp, and share (null when the payload has none).
C18_RawFieldsCarriedOver ==
    (cache.present /\ holders = {})
       => \E text \in {JsonA, JsonB} :
             LET f == text.fields
                 r == cache.result
             IN  /\ r.bytes_received = f.bytes_received
                 /\ r.bytes_sent = f.bytes_sent
                 /\ r.download_bps = f.download
                 /\ r.upload_bps = f.upload
                 /\ r.ping_ms = f.ping
                 /\ r.client = f.client
                 /\ r.server = f.server
                 /\ r.timestamp = f.timestamp
                 /\ r.share = IF "share" \in DOMAIN f THEN f.share
                              ELSE NoShare

\* the payload without a share key is cached
C18_Witness ==
    /\ cache.present
    /\ holders = {}
    /\ cache.result.bytes_received = 500
    /\ cache.result.bytes_sent = 700
    /\ cache.result.share = NoShare

\* C19: the production runner returns the spawn failure when the process
\* could not be spawned, the tool failure carrying the captured stderr when
\* it exited with a non-success status, and the captured stdout when it
\* exited with success; it never returns success for a non-success exit.
C19_RunnerOutcomeByExitStatus ==
    pc[Sched] = "match"
       => LET p == loc[Sched].proc
              res == loc[Sched].res
          IN  /\ ~p.spawned
                    => /\ ~res.ok
                       /\ res.err = <<"Failed to run speedtest-cli: ",
                                      p.ioerr>>
              /\ (p.spawned /\ ~p.success)
                    => /\ ~res.ok
                       /\ res.err = <<"speedtest-cli failed: ",
                                      p.stderr.text>>
              /\ (p.spawned /\ p.success)
                    => /\ res.ok
                       /\ p.stdout.utf8 => res.stdout = p.stdout.text
              /\ res.ok => (p.spawned /\ p.success)

\* the process has printed a valid payload and exited with a failure status
C19_Witness ==
    /\ pc[Sched] = "match"
    /\ loc[Sched].proc.spawned
    /\ ~loc[Sched].proc.success
    /\ loc[Sched].proc.stdout = Bytes(JsonA)
    /\ loc[Sched].proc.stderr.text # ""
    /\ ~loc[Sched].res.ok

\* C20: while the scheduler is suspended in the runner's process invocation
\* or in the interval wait it does not hold the cache lock, and a reader
\* waiting for the lock then is not kept out by the scheduler.
C20_NoLockAcrossSuspension ==
    pc[Sched] \in {"await_runner", "tick"}
       => /\ Sched \notin holders
          /\ \A c \in Handlers :
                pc[c] = "lock" => holders \subseteq (Handlers \ {c})

\* a handler reads the cached entry under the lock while the scheduler is
\* in the runner invocation
C20_Witness ==
    \E c \in Handlers :
        /\ pc[Sched] = "await_runner"
        /\ pc[c] = "locked"
        /\ cache.present

\* C21: when BIND_PORT does not parse as a u16 (not a number, or out of
\* range), main never gets to serve, the scheduler task is never spawned, no
\* fetch cycle starts and no request is taken or answered.
C21_InvalidPortAbortsStartup ==
    bindEnv \in {"abc", "65536"}
       => /\ mainPc # "serving"
          /\ pc[Sched] = "unspawned"
          /\ cyclesStarted = 0
          /\ runnerCalls[Sched] = 0
          /\ calls = 0
          /\ \A c \in Handlers : pc[c] = "idle" /\ ret[c] = NoRet

\* main has panicked on the port 65536 and time has gone by
C21_Witness ==
    /\ bindEnv = "65536"
    /\ mainPc = "panicked"
    /\ now = MaxTime

\* C22: no cache operation aborts its caller, whatever failed or aborted
\* in a fetch cycle before: no request handler panics in its read.
C22_CacheOpsNeverAbort == \A c \in Handlers : pc[c] # "panicked"

\* the exact product minutes * 60 of the parsed INTERVAL_MINUTES fits a u64
\* and is the scheduler's interval
IntervalIsSixtyTimes(m) ==
    LET product == MulAdd(m, SecsPerMinute, 0)
    IN  /\ product.carry = 0
        /\ U64(interval) = product.val

StartupAbort == pc[Sched] = "panicked" /\ cyclesStarted = 0

\* C23: the scheduler's interval is 10 minutes when INTERVAL_MINUTES is
\* unset or does not parse, and m minutes when it is the non-negative
\* integer m; reading it is never a startup error.
C23_IntervalFromEnvironment ==
    pc[Sched] \notin {"unspawned", "start"}
       => /\ ~StartupAbort
          /\ cyclesStarted >= 1
                => CASE env \in {NoVar, "abc"} ->
                           interval = DefaultMinutes * SecsPerMinute
                     [] env = "0" -> interval = 0
                     [] env = "1" -> interval = SecsPerMinute
                     [] OTHER -> IntervalIsSixtyTimes(ParseU64(env).val)

\* C24: in a fetch cycle of the scheduler the runner is invoked once and
\* the parser at most once, and only after the runner has returned success;
\* when a cycle has ended the counts are one runner call and one parser call
\* unless the runner failed; the runner is invoked again only by the step
\* that starts the next cycle.
C24_OneRunnerCallPerCycle ==
    /\ [](/\ pc[Sched] \in {"await_runner", "match", "lock", "locked",
                            "store_rest"}
                => /\ runnerCalls[Sched] = 1
                   /\ parserCalls[Sched] =
                         IF pc[Sched] \in {"await_runner", "match"} THEN 0
                         ELSE 1
          /\ BetweenCycles
                => /\ runnerCalls[Sched] = 1
                   /\ parserCalls[Sched] =
                         IF outcome = "runner_failed" THEN 0 ELSE 1)
    /\ [][(pc'[Sched] = "await_runner" /\ pc[Sched] # "await_runner")
             => cyclesStarted' = cyclesStarted + 1]_vars

\* the cycle after a failed one has invoked the runner
C24_Witness ==
    /\ pc[Sched] = "await_runner"
    /\ cyclesStarted = 2
    /\ outcome = "runner_failed"
    /\ runnerCalls[Sched] = 1

\* C25: the scheduler has at most one fetch cycle in progress: a cycle
\* starts only when the previous one has returned, even if its tick was due
\* long before, and every cache write is made by the one cycle in progress,
\* so writes happen in cycle order.
C25_CyclesDoNotOverlap ==
    /\ [](/\ cyclesStarted - cyclesDone \in {0, 1}
          /\ cyclesStarted = cyclesDone + 1
                <=> pc[Sched] \in {"await_runner", "match", "lock", "locked",
                                   "store_rest"})
    /\ [][/\ cyclesStarted' # cyclesStarted
                => /\ cyclesDone = cyclesStarted
                   /\ cyclesStarted' = cyclesStarted + 1
          /\ lastWritten' # lastWritten
                => /\ cyclesStarted = cyclesDone + 1
                   /\ cyclesDone' = cyclesStarted]_vars

\* a cycle is still in the runner when the next tick is already due
C25_Witness ==
    /\ pc[Sched] = "await_runner"
    /\ cyclesStarted = 2
    /\ ticker.made
    /\ NowSecs >= ticker.deadline

\* C26: for every INTERVAL_MINUTES that parses as a u64, the scheduler is
\* not aborted by the multiplication and its interval is exactly minutes *
\* 60 seconds, with nothing lost modulo 2^64.
C26_ProductNeverWraps ==
    (env # NoVar /\ ParseU64(env).ok /\ pc[Sched] \notin {"unspawned", "start"})
       => /\ ~StartupAbort
          /\ cyclesStarted >= 1 => IntervalIsSixtyTimes(ParseU64(env).val)

\* what a read result says when it reports absence
AbsentTexts(v) ==
    CASE v.kind = "Err"  -> {v.msg}
      [] v.kind = "Http" -> {v.body}
      [] OTHER           -> {}

Agree(x, y) ==
    /\ HasValue(x) = HasValue(y)
    /\ HasValue(x) => Observed(x) = Observed(y)
    /\ ~HasValue(x)
          => /\ AbsentTexts(x) \cup AbsentTexts(y) \subseteq {NotReadyText}
             /\ \A v \in {x, y} : v.kind = "Http" => v.status = 503

\* C27: whatever a read path returns for a cache state, the other two read
\* paths make the same of that cache state: Some(r), Ok(r) and 200 with r
\* go together, and so do None, Err("Speedtest result not available yet.")
\* and 503 with that text.
C27_ReadPathsAgree ==
    [][\A c \in Clients :
          (pc[c] = "locked" /\ pc'[c] = "idle" /\ op[c].name \in ReadOps)
             => /\ ret'[c].kind \in
                      CASE op[c].name = "get_last_result" -> {"Some", "None"}
                        [] op[c].name = "get_cached_speedtest_result" ->
                              {"Ok", "Err"}
                        [] OTHER -> {"Http"}
                /\ HasValue(ret'[c]) = cache.present
                /\ \A name \in ReadOps :
                      Agree(ret'[c], ReadResult(name, cache))]_vars

\* the query service and the handler have returned the same stored result
C27_Witness ==
    \E c, d \in Clients :
        /\ ret[c].kind = "Ok"
        /\ ret[d].kind = "Http"
        /\ ret[d].status = 200
        /\ Observed(ret[d]) = ret[c].val
        /\ cache.present
        /\ cache.result = ret[c].val

\* C28: no step of a read (the call, the lock, the clone and return) and no
\* later modification of a returned value changes the cache: the entry and
\* its capture instant stay as they were.
C28_ReadsLeaveCacheUnchanged ==
    [][\A c \in Clients :
          (\/ /\ pc'[c] # pc[c]
              /\ op[c].name \in ReadOps \/ op'[c].name \in ReadOps
           \/ /\ pc[c] = "idle"
              /\ pc'[c] = "idle"
              /\ ret'[c] # ret[c])
             => /\ cache' = cache
                /\ lastWritten' = lastWritten]_vars

\* a caller has overwritten the value it was handed; the cache still holds
\* the value as it was stored
C28_Witness ==
    \E c \in Clients :
        /\ ret[c].kind \in {"Some", "Ok"}
        /\ ret[c].val = Scribble(dummy_result)
        /\ cache.present
        /\ cache.result = dummy_result
        /\ holders = {}

====
